---- MODULE Spec2Model ----
(***************************************************************************)
(* FRANZ (madafak.py): the control loop of main() and the HUD window       *)
(* thread, as two interleaved processes sharing the HUD object's fields    *)
(* paused, mode, stop_event, pause_event and ready_event.                  *)
(*                                                                         *)
(* The control loop is the main thread running main() without --test; the  *)
(* operator surface is the daemon thread running HUD._window_thread.       *)
(* External collaborators (screen capture, the decision service, the       *)
(* dump directory, SendInput) return or raise nondeterministically.        *)
(***************************************************************************)
EXTENDS Integers, Sequences, FiniteSets, TLC

\* Bound of the model: the control loop starts at most MaxSteps steps.
MaxSteps == 2
\* Bounds of the coordinate conversions: screens of up to MaxDim pixels on
\* each axis, and coordinates up to MaxOver outside each end of [0, 1000].
MaxDim == 3
MaxOver == 2
\* Bound of the image functions: buffers up to MaxSide pixels wide (sources
\* of black pixels up to twice that).
MaxSide == 3

MODE_OBSERVATION == 0
MODE_EXECUTION == 1

Modes == {MODE_OBSERVATION, MODE_EXECUTION}

\* The tool names of TOOLS, and one name the decision service may return
\* that is none of them.
ActionTools == {"click", "right_click", "double_click", "drag", "type", "scroll"}
ToolNames == ActionTools \cup {"observe", "zoom"}

NoRequest == [sent |-> FALSE]

\* get_sampling_config(mode); the fractional parameters are held in hundredths.
get_sampling_config(m) ==
    IF m = MODE_OBSERVATION
    THEN [temperature |-> 180, top_p |-> 90, top_k |-> 40,
          presence_penalty |-> 0, frequency_penalty |-> 0,
          repeat_penalty |-> 110, max_tokens |-> 600,
          min_completion_tokens |-> 120]
    ELSE [temperature |-> 80, top_p |-> 75, top_k |-> 20,
          presence_penalty |-> 0, frequency_penalty |-> 0,
          repeat_penalty |-> 120, max_tokens |-> 600,
          min_completion_tokens |-> 120]

\* The order of the stages of one step in main()'s loop body.
StageOrder ==
    <<"capture_screen", "downsample", "encode_png", "write_bytes",
      "call_vlm", "update", "execute_tool_action">>

IsPrefix(s, t) == Len(s) <= Len(t) /\ SubSeq(t, 1, Len(s)) = s

----------------------------------------------------------------------------
(* Coordinates, input events and the responses of the decision service.     *)

\* int(): truncation toward zero of n / d, for d > 0.
Trunc(n, d) == IF n >= 0 THEN n \div d ELSE -((-n) \div d)

Max(a, b) == IF a >= b THEN a ELSE b
Min(a, b) == IF a <= b THEN a ELSE b
Abs(a) == IF a >= 0 THEN a ELSE -a

\* Faulty variant of to_screen: the input is scaled without being clamped.
to_screen_unclamped(c, x, y) ==
    <<Trunc(x * c.sw, 1000), Trunc(y * c.sh, 1000)>>

\* Coord.to_screen, on a Coord c = [sw, sh] and whole-number inputs.
to_screen(c, x, y) ==
    <<Trunc(Max(0, Min(1000, x)) * c.sw, 1000),
      Trunc(Max(0, Min(1000, y)) * c.sh, 1000)>>

\* Coord.to_win32.
to_win32(c, x, y) ==
    <<IF c.sw > 0 THEN Trunc(x * 65535, c.sw) ELSE 0,
      IF c.sh > 0 THEN Trunc(y * 65535, c.sh) ELSE 0>>

\* conv = Coord(sw, sh) of main(), for a 1920 x 1080 display.
conv == [sw |-> 1920, sh |-> 1080]

\* make_mouse_input and the KEYBDINPUT records of type_text.
Move(p) == [type |-> "move", dx |-> p[1], dy |-> p[2]]
Button(flag) == [type |-> flag, dx |-> 0, dy |-> 0]
Wheel(data) == [type |-> "wheel", dx |-> 0, dy |-> 0, data |-> data]
Key(code, up) == [type |-> "key", code |-> code, up |-> up]

WHEEL_DELTA == 120

\* The batches mouse_click hands to send_input, for a screen position p.
mouse_click(p, c) ==
    <<  <<Move(to_win32(c, p[1], p[2])), Button("leftdown"), Button("leftup")>>  >>

mouse_right_click(p, c) ==
    <<  <<Move(to_win32(c, p[1], p[2])), Button("rightdown"), Button("rightup")>>  >>

mouse_double_click(p, c) ==
    <<  <<Move(to_win32(c, p[1], p[2])), Button("leftdown"), Button("leftup")>>,
        <<Button("leftdown"), Button("leftup")>>  >>

\* mouse_drag: move and press, ten interpolated moves, release.
mouse_drag(p1, p2, c) ==
    LET a1 == to_win32(c, p1[1], p1[2])
        a2 == to_win32(c, p2[1], p2[2])
        at(i) == <<Trunc(10 * a1[1] + (a2[1] - a1[1]) * i, 10),
                   Trunc(10 * a1[2] + (a2[2] - a1[2]) * i, 10)>>
    IN  <<  <<Move(a1), Button("leftdown")>>  >>
        \o [i \in 1..10 |-> <<Move(at(i))>>]
        \o <<  <<Button("leftup")>>  >>

\* type_text, of the UTF-16 code units of the text.
type_text(units) ==
    IF units = <<>> THEN <<>>
    ELSE << [i \in 1..(2 * Len(units)) |->
                Key(units[(i + 1) \div 2], i % 2 = 0)] >>

\* scroll.
scroll(dy) ==
    LET ticks == Max(1, Trunc(Abs(dy), WHEEL_DELTA))
        direction == IF dy > 0 THEN 1 ELSE -1
    IN  << [i \in 1..ticks |-> Wheel(WHEEL_DELTA * direction)] >>

Has(a, keys) == keys \subseteq DOMAIN a

\* execute_tool_action: whether the arguments it reads are there (a missing
\* one raises KeyError before anything is sent), and the batches it hands
\* to send_input, in order.  A tool name that matches no case sends nothing.
execute_tool_action(t, a, c) ==
    CASE t = "click" ->
           IF Has(a, {"x", "y"})
           THEN [ok |-> TRUE, batches |-> mouse_click(to_screen(c, a.x, a.y), c)]
           ELSE [ok |-> FALSE, batches |-> <<>>]
      [] t = "right_click" ->
           IF Has(a, {"x", "y"})
           THEN [ok |-> TRUE, batches |-> mouse_right_click(to_screen(c, a.x, a.y), c)]
           ELSE [ok |-> FALSE, batches |-> <<>>]
      [] t = "double_click" ->
           IF Has(a, {"x", "y"})
           THEN [ok |-> TRUE, batches |-> mouse_double_click(to_screen(c, a.x, a.y), c)]
           ELSE [ok |-> FALSE, batches |-> <<>>]
      [] t = "drag" ->
           IF Has(a, {"x1", "y1", "x2", "y2"})
           THEN [ok |-> TRUE,
                 batches |-> mouse_drag(to_screen(c, a.x1, a.y1),
                                        to_screen(c, a.x2, a.y2), c)]
           ELSE [ok |-> FALSE, batches |-> <<>>]
      [] t = "type" ->
           IF Has(a, {"text"})
           THEN [ok |-> TRUE, batches |-> type_text(a.text)]
           ELSE [ok |-> FALSE, batches |-> <<>>]
      [] t = "scroll" ->
           IF Has(a, {"dy"})
           THEN [ok |-> TRUE, batches |-> scroll(a.dy)]
           ELSE [ok |-> FALSE, batches |-> <<>>]
      [] OTHER -> [ok |-> TRUE, batches |-> <<>>]

RECURSIVE FlattenFrom(_, _)
\* The events of the batches bs[i], bs[i + 1], ..., in order.
FlattenFrom(bs, i) == IF i > Len(bs) THEN <<>> ELSE bs[i] \o FlattenFrom(bs, i + 1)

\* The events of a sequence of batches, in order.
Flatten(bs) == FlattenFrom(bs, 1)

\* The argument object main() holds before the first response.
NoArgs == [none |-> TRUE]

\* INITIAL_STORY, the text the HUD edit control starts with.
INITIAL_STORY == ""

\* One entry of the tool_calls list of a response.
TC(n, a) == [name |-> n, args |-> a]

\* The tool_calls lists the decision service answers with: each tool, with
\* coordinates in and out of [0, 1000], with and without a report, with an
\* argument missing, and with a second tool call.
Responses ==
    { <<TC("click", [x |-> 500, y |-> 500, report |-> "r"])>>,
      <<TC("click", [x |-> -20, y |-> 1200, report |-> ""])>>,
      <<TC("click", [x |-> 500, y |-> 500])>>,
      <<TC("click", [report |-> "r"])>>,
      <<TC("right_click", [x |-> 0, y |-> 1000, report |-> "r"])>>,
      <<TC("double_click", [x |-> 1000, y |-> 0, report |-> "r"])>>,
      <<TC("drag", [x1 |-> 0, y1 |-> 0, x2 |-> 1000, y2 |-> 1000, report |-> "r"])>>,
      <<TC("type", [text |-> <<97, 98>>, report |-> "r"])>>,
      <<TC("type", [text |-> <<>>, report |-> "r"])>>,
      <<TC("scroll", [dy |-> 240, report |-> "r"])>>,
      <<TC("scroll", [dy |-> -50, report |-> "r"])>>,
      <<TC("observe", [report |-> "r"])>>,
      <<TC("zoom", [x |-> 500, y |-> 500, report |-> "r"])>>,
      <<TC("observe", [report |-> "r"]),
        TC("click", [x |-> 500, y |-> 500, report |-> "r"])>>,
      <<TC("click", [x |-> 250, y |-> 750, report |-> "r"]),
        TC("right_click", [x |-> 0, y |-> 0, report |-> "r"])>> }

\* execute_tool_action(tool, args2, conv) worked out for every tool call of
\* Responses: whether its arguments are there, and its events in order.
Executed ==
    {[name |-> tc.name,
      args |-> tc.args,
      ok |-> execute_tool_action(tc.name, tc.args, conv).ok,
      events |-> Flatten(execute_tool_action(tc.name, tc.args, conv).batches)] :
        tc \in UNION {{r[i] : i \in DOMAIN r} : r \in Responses}}

\* args2.get("report", "")
report_of(a) == IF "report" \in DOMAIN a THEN a.report ELSE ""

RECURSIVE Digits(_)
\* The decimal digits of n >= 0.
Digits(n) == IF n < 10 THEN <<n>> ELSE Append(Digits(n \div 10), n % 10)

\* f"step{step:03d}.png": the digits of the step, zero-padded to three.
dump_name(n) ==
    LET d == Digits(n)
        pad == Max(0, 3 - Len(d))
    IN  <<"step">> \o [i \in 1..pad |-> 0] \o d \o <<".png">>


----------------------------------------------------------------------------
(* The image functions: downsample and encode_png.  A buffer is the         *)
(* sequence of its bytes, four per pixel in the order B, G, R, A, rows one  *)
(* after the other; the byte at offset o of a buffer b is b[o + 1].         *)

RECURSIVE SeqSum(_)
\* The sum of a sequence of numbers.
SeqSum(q) == IF q = <<>> THEN 0 ELSE Head(q) + SeqSum(Tail(q))

\* The byte of channel c (0..3) of the pixel (x, y) of a buffer w wide.
Px(b, w, x, y, c) == b[(y * w + x) * 4 + c + 1]

\* Numbers with a fractional part are kept in units of 1 / Unit.
Unit == 10000
\* math.pi, in those units.
Pi == 31416

\* math.sin(math.pi * p / q) for p >= 0, q > 0, in units of 1 / Unit: the
\* angle is brought into [0, pi/2] and the sine series is summed to the
\* ninth power.
sin_pi(p, q) ==
    LET r == p % (2 * q)
        sign == IF r < q THEN 1 ELSE -1
        r1 == r % q
        r2 == IF 2 * r1 > q THEN q - r1 ELSE r1
        u == (Pi * r2) \div q
        u2 == (u * u) \div Unit
        a4 == Unit - (u2 \div 72)
        a3 == Unit - (((u2 \div 42) * a4) \div Unit)
        a2 == Unit - (((u2 \div 20) * a3) \div Unit)
        a1 == Unit - (((u2 \div 6) * a2) \div Unit)
    IN  sign * ((u * a1) \div Unit)

\* lanczos_kernel(x) with a = 3, for x = n / d with d > 0, in units of
\* 1 / Unit: 1 at 0, 0 from 3 on, a * sin(pi x) * sin(pi x / a) / (pi x)^2
\* in between.
lanczos_kernel(n, d) ==
    IF n = 0 THEN Unit
    ELSE IF Abs(n) >= 3 * d THEN 0
    ELSE LET pi_x == (Pi * Abs(n)) \div d
             q1 == Trunc(sin_pi(Abs(n), d) * Unit, pi_x)
             q2 == Trunc(3 * sin_pi(Abs(n), 3 * d) * Unit, pi_x)
         IN  Trunc(q1 * q2, Unit)

radius == 3

\* On one axis, with sdim source and ddim destination pixels, destination
\* pixel d has its centre at c = (d + 0.5) * sdim / ddim - 0.5, which is
\* ((2d + 1) * sdim - ddim) / (2 * ddim).  x_start = max(0, int(c - radius))
\* and x_end = min(sdim, int(c + radius) + 1).
x_start(sdim, ddim, d) ==
    Max(0, Trunc((2 * d + 1) * sdim - ddim - 2 * ddim * radius, 2 * ddim))
x_end(sdim, ddim, d) ==
    Min(sdim, Trunc((2 * d + 1) * sdim - ddim + 2 * ddim * radius, 2 * ddim) + 1)

\* range(x_start, x_end): the source positions accumulated on that axis.
Window(sdim, ddim, d) == x_start(sdim, ddim, d)..(x_end(sdim, ddim, d) - 1)

RECURSIVE AxisSum(_, _, _, _, _)
\* The kernel weights of the source positions from..(to - 1), summed.  The
\* kernel argument (s - c) / (sdim / ddim) is
\* (2 * ddim * s - (2d + 1) * sdim + ddim) / (2 * sdim).
AxisSum(sdim, ddim, d, from, to) ==
    IF from >= to THEN 0
    ELSE lanczos_kernel(2 * ddim * from - (2 * d + 1) * sdim + ddim, 2 * sdim)
            + AxisSum(sdim, ddim, d, from + 1, to)

\* The weights of one axis summed over the window of destination pixel d.
WindowSum(sdim, ddim, d) ==
    AxisSum(sdim, ddim, d, x_start(sdim, ddim, d), x_end(sdim, ddim, d))

\* The sums above are within Margin of the sums the floats give; a sum
\* within Margin of 0 has no known sign.
Margin == 200

\* `if weight_sum > 0.0`, for destination pixel (dx, dy): weight_sum is the
\* product of the two axis sums.  "set": it is positive; "unset": it is
\* not; "either": one axis sum is rounding noise around 0 and the float sum
\* can fall on either side.
WeightSign(sw, sh, dw, dh, dx, dy) ==
    LET wx == WindowSum(sw, dw, dx)
        wy == WindowSum(sh, dh, dy)
    IN  IF Abs(wx) <= Margin \/ Abs(wy) <= Margin THEN "either"
        ELSE IF (wx > 0) = (wy > 0) THEN "set"
        ELSE "unset"

\* Faulty variant of Stored: the accumulated value is not divided by the
\* weight sum.
StoredUnnormalised(v, wx, wy, low) ==
    Max(0, Min(255, Trunc(v * Trunc(wx * wy, Unit), Unit)))

\* max(0, min(255, int(accum[c] / weight_sum))) when every source byte of
\* the window is v, so that accum[c] is v * weight_sum up to float rounding:
\* the quotient is v, or just below v and truncated to v - 1 (low).
Stored(v, wx, wy, low) == IF low THEN Max(0, v - 1) ELSE v

\* The pixel temp[di .. di + 3] is left with when it is not written.
Unset == <<0, 0, 0, 0>>

\* The pixels a destination pixel of a source of one colour col can get
\* when it is written: equal channel values round alike.
Written(col, wx, wy) ==
    {[c \in 1..4 |-> Stored(col[c], wx, wy, col[c] \in low)] :
        low \in SUBSET {col[c] : c \in 1..4}}

\* Pixels of a resampled buffer whose source is not of one colour.
TempPixels == {<<0, 100, 255, 255>>, <<128, 105, 60, 7>>}

\* Whether every pixel of the buffer is its first pixel.
IsUniform(b) == \A i \in DOMAIN b : b[i] = b[((i - 1) % 4) + 1]

\* The pixels destination pixel number k (row by row) of temp can hold
\* after the resampling loops.  For a source of one colour they follow from
\* the sign of the weight sum; the weighted mean of other sources is not
\* computed: a written pixel is then any of TempPixels.
TempPixel(cl, k) ==
    LET dx == k % cl.dw
        dy == k \div cl.dw
        sign == WeightSign(cl.sw, cl.sh, cl.dw, cl.dh, dx, dy)
        written == IF IsUniform(cl.src)
                   THEN Written(SubSeq(cl.src, 1, 4), WindowSum(cl.sw, cl.dw, dx),
                                WindowSum(cl.sh, cl.dh, dy))
                   ELSE TempPixels
    IN  CASE sign = "set" -> written
          [] sign = "unset" -> {Unset}
          [] OTHER -> written \cup {Unset}

RECURSIVE TempBuffers(_, _)
\* The buffers temp can be after the resampling loops: its first n pixels.
TempBuffers(cl, n) ==
    IF n = 0 THEN {<<>>}
    ELSE {b \o px : b \in TempBuffers(cl, n - 1), px \in TempPixel(cl, n - 1)}

threshold == 10

\* The 3 x 3 neighbourhood of the blur: the offsets (ox, oy) in loop order.
Offsets ==
    <<  <<-1, -1>>, <<0, -1>>, <<1, -1>>,
        <<-1, 0>>, <<0, 0>>, <<1, 0>>,
        <<-1, 1>>, <<0, 1>>, <<1, 1>>  >>

\* Faulty variant of Enhanced: every channel is sharpened, whatever its
\* detail, and the alpha byte too.
EnhancedAll(temp, dw, dh) ==
    [i \in 1..(dw * dh * 4) |->
        LET c == (i - 1) % 4
            dx == ((i - 1) \div 4) % dw
            dy == ((i - 1) \div 4) \div dw
            blur10 == SeqSum([k \in 1..9 |->
                         LET nx == Max(0, Min(dw - 1, dx + Offsets[k][1]))
                             ny == Max(0, Min(dh - 1, dy + Offsets[k][2]))
                         IN  (IF k = 5 THEN 2 ELSE 1) * Px(temp, dw, nx, ny, c)])
            detail10 == 10 * temp[i] - blur10
        IN  Max(0, Min(255, Trunc(100 * temp[i] + 8 * detail10, 100)))]

\* The second pass of downsample, dst from temp.  blur[c] is the sum of the
\* nine clamped neighbours, the centre with weight 1.0 and the others with
\* 0.5, over count = 5.0; here ten times the blur (blur10) and ten times
\* the detail (detail10) are whole numbers.  abs(detail) > threshold, then
\* int(original + detail * 0.8) clamped to a byte; the alpha byte is copied.
Enhanced(temp, dw, dh) ==
    [i \in 1..(dw * dh * 4) |->
        LET c == (i - 1) % 4
            dx == ((i - 1) \div 4) % dw
            dy == ((i - 1) \div 4) \div dw
            blur10 == SeqSum([k \in 1..9 |->
                         LET nx == Max(0, Min(dw - 1, dx + Offsets[k][1]))
                             ny == Max(0, Min(dh - 1, dy + Offsets[k][2]))
                         IN  (IF k = 5 THEN 2 ELSE 1) * Px(temp, dw, nx, ny, c)])
            detail10 == 10 * temp[i] - blur10
        IN  IF c = 3 THEN temp[i]
            ELSE IF Abs(detail10) > 10 * threshold
                 THEN Max(0, Min(255, Trunc(100 * temp[i] + 8 * detail10, 100)))
                 ELSE temp[i]]

\* Faulty variant of encode_raw: the pixels are copied in buffer order.
encode_raw_bgr(bgra, width, height) ==
    [i \in 1..((width * 3 + 1) * height) |->
        LET y == (i - 1) \div (width * 3 + 1)
            k == (i - 1) % (width * 3 + 1)
        IN  IF k = 0 THEN 0
            ELSE LET x == (k - 1) \div 3
                     c == (k - 1) % 3
                 IN  bgra[y * width * 4 + x * 4 + c + 1]]

\* The scanline stream `raw` of encode_png: per row the byte 0, then for
\* each pixel row[x * 4 + 2], row[x * 4 + 1], row[x * 4].
encode_raw(bgra, width, height) ==
    [i \in 1..((width * 3 + 1) * height) |->
        LET y == (i - 1) \div (width * 3 + 1)
            k == (i - 1) % (width * 3 + 1)
        IN  IF k = 0 THEN 0
            ELSE LET x == (k - 1) \div 3
                     c == (k - 1) % 3
                 IN  bgra[y * width * 4 + x * 4 + (2 - c) + 1]]

\* encode_png: the fields of the IHDR chunk and the stream the IDAT chunk
\* carries.  zlib.compress is lossless, so the chunk is kept as the stream
\* it decompresses to.
encode_png(bgra, width, height) ==
    [ihdr |-> [width |-> width, height |-> height, depth |-> 8, colour |-> 2],
     idat |-> encode_raw(bgra, width, height)]

\* No pure function is being called; nothing has been returned.
NoCall == [fn |-> "none"]
NoResult == [of |-> "none"]

VARIABLES
    paused,       \* HUD.paused
    mode,         \* HUD.mode
    stop_event,   \* HUD.stop_event.is_set()
    pause_event,  \* HUD.pause_event.is_set()
    ready_event,  \* HUD.ready_event.is_set()
    hud_pc,       \* position of the window thread
    hud_arg,      \* the argument `paused` of the running _set_paused_ui call
    pc,           \* position of the control-loop (main) thread
    seenPaused,   \* self.paused as read by the last test of wait_for_resume
    step,         \* main()'s local step counter
    dumped,       \* the names of the files written to dump_dir, in order
    stages,       \* the stages the current step has performed, in order
    request,      \* the decision request in flight, or NoRequest
    tool,         \* the tool name call_vlm returned in the current step
    args,         \* the argument object call_vlm returned with it
    response,     \* the tool_calls list of the last response received
    shown,        \* the step whose report the HUD edit control shows (0: none)
    text,         \* the text of the HUD edit control
    acted,        \* the last step that handed a command to SendInput (0: none)
    sent,         \* the input events SendInput inserted in the current step
    err,          \* the stage that raised last, or "none"
    exit,         \* how main() ended, or "none"
    toggled,      \* whether the operator has pressed the pause button yet
    call,         \* a call of one of the pure functions: its name and inputs
    out           \* what that call returned, or NoResult before it has run

vars == <<paused, mode, stop_event, pause_event, ready_event, hud_pc, hud_arg,
          pc, seenPaused, step, dumped, stages, request, tool, args, response, shown, text, acted, sent, err,
          exit, toggled, call, out>>

\* The variables of the pure functions; neither thread writes them.
fnVars == <<call, out>>

hudVars == <<paused, mode, stop_event, pause_event, ready_event, hud_pc,
             hud_arg, toggled, fnVars>>
loopVars == <<pc, seenPaused, step, dumped, stages, request, tool, args, response, shown, text, acted, sent, err,
              exit, fnVars>>

\* The variables of the two threads.
sysVars == <<paused, mode, stop_event, pause_event, ready_event, hud_pc,
             hud_arg, toggled, pc, seenPaused, step, dumped, stages, request,
             tool, args, response, shown, text, acted, sent, err, exit>>

\* Positions of the control loop inside a step, after the pause check.
InStep == {"begin", "capture_screen", "downsample", "encode_png", "write_bytes",
           "call_vlm", "inflight", "report", "update", "dispatch", "except"}
\* Positions of the control loop inside wait_for_resume.
InWait == {"wait0_test", "wait0_block", "wait_test", "wait_block"}

\* Faulty variant of Init: the HUD starts running instead of paused.
InitRunning ==
    /\ paused = FALSE
    /\ mode = MODE_OBSERVATION
    /\ stop_event = FALSE
    /\ pause_event = TRUE
    /\ ready_event = FALSE
    /\ hud_pc = "start"
    /\ hud_arg = TRUE
    /\ pc = "enter"
    /\ seenPaused = TRUE
    /\ step = 0
    /\ dumped = <<>>
    /\ stages = <<>>
    /\ request = NoRequest
    /\ tool = "observe"
    /\ args = NoArgs
    /\ response = <<>>
    /\ shown = 0
    /\ text = INITIAL_STORY
    /\ acted = 0
    /\ sent = <<>>
    /\ err = "none"
    /\ exit = "none"
    /\ toggled = FALSE
    /\ call = NoCall
    /\ out = NoResult

\* HUD field defaults, then HUD.__enter__ up to thread.start().
Init ==
    /\ paused = TRUE
    /\ mode = MODE_OBSERVATION
    /\ stop_event = FALSE
    /\ pause_event = FALSE
    /\ ready_event = FALSE
    /\ hud_pc = "start"
    /\ hud_arg = TRUE
    /\ pc = "enter"
    /\ seenPaused = TRUE
    /\ step = 0
    /\ dumped = <<>>
    /\ stages = <<>>
    /\ request = NoRequest
    /\ tool = "observe"
    /\ args = NoArgs
    /\ response = <<>>
    /\ shown = 0
    /\ text = INITIAL_STORY
    /\ acted = 0
    /\ sent = <<>>
    /\ err = "none"
    /\ exit = "none"
    /\ toggled = FALSE
    /\ call = NoCall
    /\ out = NoResult

----------------------------------------------------------------------------
(* The window thread: HUD._window_thread and HUD._wndproc.                  *)

\* RegisterClassExW or CreateWindowExW fails: ready_event.set(); return.
WindowCreateFail ==
    /\ hud_pc = "start"
    /\ ready_event' = TRUE
    /\ hud_pc' = "exited"
    /\ UNCHANGED <<paused, mode, stop_event, pause_event, hud_arg, toggled>>
    /\ UNCHANGED loopVars

\* The window and its controls are created; _set_paused_ui(True) writes paused.
WindowCreate ==
    /\ hud_pc = "start"
    /\ paused' = TRUE
    /\ hud_arg' = TRUE
    /\ hud_pc' = "init_event"
    /\ UNCHANGED <<mode, stop_event, pause_event, ready_event, toggled>>
    /\ UNCHANGED loopVars

\* The tail of that _set_paused_ui(True), then ready_event.set().
WindowReady ==
    /\ hud_pc = "init_event"
    /\ pause_event' = ~hud_arg
    /\ ready_event' = TRUE
    /\ hud_pc' = "pump"
    /\ UNCHANGED <<paused, mode, stop_event, hud_arg, toggled>>
    /\ UNCHANGED loopVars

\* WM_COMMAND from the pause button: _set_paused_ui(not self.paused), up to
\* the write of self.paused.
toggle_pause ==
    /\ hud_pc = "pump"
    /\ paused' = ~paused
    /\ hud_arg' = ~paused
    /\ hud_pc' = "set_event"
    /\ toggled' = TRUE
    /\ UNCHANGED <<mode, stop_event, pause_event, ready_event>>
    /\ UNCHANGED loopVars

\* The tail of _set_paused_ui: pause_event.clear() or pause_event.set().
set_paused_event ==
    /\ hud_pc = "set_event"
    /\ pause_event' = ~hud_arg
    /\ hud_pc' = "pump"
    /\ UNCHANGED <<paused, mode, stop_event, ready_event, hud_arg, toggled>>
    /\ UNCHANGED loopVars

\* Faulty variant of toggle_mode: switching the mode also pauses the loop.
toggle_mode_pauses ==
    /\ hud_pc = "pump"
    /\ mode' = (IF mode = MODE_OBSERVATION THEN MODE_EXECUTION ELSE MODE_OBSERVATION)
    /\ paused' = TRUE
    /\ UNCHANGED <<stop_event, pause_event, ready_event, hud_pc, hud_arg, toggled>>
    /\ UNCHANGED loopVars

\* WM_COMMAND from the mode label: set_mode of the other mode.
toggle_mode ==
    /\ hud_pc = "pump"
    /\ mode' = (IF mode = MODE_OBSERVATION THEN MODE_EXECUTION ELSE MODE_OBSERVATION)
    /\ UNCHANGED <<paused, stop_event, pause_event, ready_event, hud_pc,
                   hud_arg, toggled>>
    /\ UNCHANGED loopVars

\* WM_CLOSE: stop_event.set(); DestroyWindow.
wm_close ==
    /\ hud_pc = "pump"
    /\ stop_event' = TRUE
    /\ hud_pc' = "destroy"
    /\ UNCHANGED <<paused, mode, pause_event, ready_event, hud_arg, toggled>>
    /\ UNCHANGED loopVars

\* WM_DESTROY: stop_event.set(); pause_event.set().
wm_destroy ==
    /\ hud_pc = "destroy"
    /\ stop_event' = TRUE
    /\ pause_event' = TRUE
    /\ hud_pc' = "unwind"
    /\ UNCHANGED <<paused, mode, ready_event, hud_arg, toggled>>
    /\ UNCHANGED loopVars

\* The message loop ends (stop_event is set after WM_DESTROY, or GetMessageW
\* returned 0 or -1):
\* stop_event.set(); pause_event.set().
PumpExit ==
    /\ hud_pc \in {"pump", "unwind"}
    /\ stop_event' = TRUE
    /\ pause_event' = TRUE
    /\ hud_pc' = "exited"
    /\ UNCHANGED <<paused, mode, ready_event, hud_arg, toggled>>
    /\ UNCHANGED loopVars

HudNext ==
    \/ WindowCreateFail
    \/ WindowCreate
    \/ WindowReady
    \/ toggle_pause
    \/ set_paused_event
    \/ toggle_mode
    \/ wm_close
    \/ wm_destroy
    \/ PumpExit

----------------------------------------------------------------------------
(* The control loop: main() inside `with HUD() as hud`, and the HUD methods *)
(* it calls.                                                                *)

\* Faulty variant of wait_condition: the loop of wait_for_resume ignores paused.
wait_condition_no_pause(p, s) == FALSE

\* Faulty variant of wait_condition: the loop of wait_for_resume ignores stop_event.
wait_condition_no_stop(p, s) == p

\* The condition of the loop of wait_for_resume, of the values it reads.
wait_condition(p, s) == p /\ ~s

\* The payload call_vlm builds for the mode it was passed.
payload(m) == [sent |-> TRUE, sampling |-> get_sampling_config(m)]

\* HUD.__enter__ after thread.start(): ready_event.wait(timeout=2.0) returns
\* when the event is set or at the timeout; then main() sets step = 0.
EnterWait ==
    /\ pc = "enter"
    /\ pc' = "wait0_test"
    /\ UNCHANGED <<seenPaused, step, dumped, stages, request, tool, args, response, shown, text, acted, sent, err, exit>>
    /\ UNCHANGED hudVars

\* One test of `while self.paused and not self.stop_event.is_set()`.
WaitTest(test, block, next) ==
    /\ pc = test
    /\ seenPaused' = paused
    /\ pc' = (IF wait_condition(paused, stop_event) THEN block ELSE next)
    /\ UNCHANGED <<step, dumped, stages, request, tool, args, response, shown, text, acted, sent, err, exit>>
    /\ UNCHANGED hudVars

\* Faulty variant of WaitBlock: pause_event.wait() without a timeout returns
\* only when the event is set.
WaitBlockNoTimeout(block, test) ==
    /\ pc = block
    /\ pause_event
    /\ pc' = test
    /\ UNCHANGED <<seenPaused, step, dumped, stages, request, tool, args, response, shown, text, acted, sent, err, exit>>
    /\ UNCHANGED hudVars

\* pause_event.wait(timeout=0.1) returns: the event is set, or 0.1 s passed.
WaitBlock(block, test) ==
    /\ pc = block
    /\ pc' = test
    /\ UNCHANGED <<seenPaused, step, dumped, stages, request, tool, args, response, shown, text, acted, sent, err, exit>>
    /\ UNCHANGED hudVars

\* main() ends and `with HUD()` runs HUD.__exit__: stop_event.set();
\* pause_event.set().
Leave(cause) ==
    /\ pc' = "done"
    /\ exit' = cause
    /\ request' = NoRequest
    /\ stop_event' = TRUE
    /\ pause_event' = TRUE
    /\ UNCHANGED <<paused, mode, ready_event, hud_pc, hud_arg, toggled>>
    /\ UNCHANGED <<seenPaused, step, dumped, stages, tool, args, response, shown, text, acted, sent>>
    /\ UNCHANGED fnVars

\* The first wait_for_resume of main().
FirstWaitTest == WaitTest("wait0_test", "wait0_block", "stop0")
FirstWaitBlock == WaitBlock("wait0_block", "wait0_test")

\* `if hud.stop_event.is_set(): return` after the first wait.
FirstStopCheck ==
    /\ pc = "stop0"
    /\ IF stop_event
       THEN Leave("stop") /\ UNCHANGED err
       ELSE /\ pc' = "loop"
            /\ UNCHANGED <<seenPaused, step, dumped, stages, request, tool, args, response, shown, text,
                           acted, sent, err, exit>>
            /\ UNCHANGED hudVars

\* `while not hud.stop_event.is_set()`.
LoopHead ==
    /\ pc = "loop"
    /\ IF stop_event
       THEN Leave("stop") /\ UNCHANGED err
       ELSE /\ pc' = "wait_test"
            /\ UNCHANGED <<seenPaused, step, dumped, stages, request, tool, args, response, shown, text,
                           acted, sent, err, exit>>
            /\ UNCHANGED hudVars

\* The wait_for_resume at the head of every iteration.
StepWaitTest == WaitTest("wait_test", "wait_block", "stopchk")
StepWaitBlock == WaitBlock("wait_block", "wait_test")

\* `if hud.stop_event.is_set(): break` after the wait.
StopCheck ==
    /\ pc = "stopchk"
    /\ IF stop_event
       THEN Leave("stop") /\ UNCHANGED err
       ELSE /\ step < MaxSteps
            /\ pc' = "begin"
            /\ UNCHANGED <<seenPaused, step, dumped, stages, request, tool, args, response, shown, text,
                           acted, sent, err, exit>>
            /\ UNCHANGED hudVars

\* Faulty variant of Begin: the step counter is not advanced.
BeginNoCount ==
    /\ pc = "begin"
    /\ step' = step
    /\ stages' = <<>>
    /\ err' = "none"
    /\ pc' = "capture_screen"
    /\ sent' = <<>>
    /\ UNCHANGED <<seenPaused, dumped, request, tool, args, response, shown, text, acted, exit>>
    /\ UNCHANGED hudVars

\* time.sleep(0.02); step += 1; ts = now.
Begin ==
    /\ pc = "begin"
    /\ step' = step + 1
    /\ stages' = <<>>
    /\ err' = "none"
    /\ pc' = "capture_screen"
    /\ sent' = <<>>
    /\ UNCHANGED <<seenPaused, dumped, request, tool, args, response, shown, text, acted, exit>>
    /\ UNCHANGED hudVars

\* A stage of the step that is outside the try block: it returns, or (when
\* canRaise) it raises and the exception leaves main().
OpenStage(at, next, canRaise) ==
    /\ pc = at
    /\ \/ /\ stages' = Append(stages, at)
          /\ pc' = next
          /\ dumped' = (IF at = "write_bytes"
                        THEN Append(dumped, dump_name(step)) ELSE dumped)
          /\ UNCHANGED <<seenPaused, step, request, tool, args, response, shown, text, acted, sent, err, exit>>
          /\ UNCHANGED hudVars
       \/ /\ canRaise
          /\ err' = at
          /\ Leave("exception")

\* bgra = capture_screen(sw, sh)
Capture == OpenStage("capture_screen", "downsample", TRUE)
\* down = downsample(bgra, sw, sh, SCREEN_W, SCREEN_H)
Downsample == OpenStage("downsample", "encode_png", FALSE)
\* png = encode_png(down, SCREEN_W, SCREEN_H)
EncodePng == OpenStage("encode_png", "write_bytes", FALSE)
\* (dump_dir / f"step{step:03d}.png").write_bytes(png)
WriteBytes == OpenStage("write_bytes", "call_vlm", TRUE)

\* Faulty variant of Raise: no handler around the try block's calls.
RaiseUncaught(at) ==
    /\ err' = at
    /\ Leave("exception")

\* An exception raised inside the try block: `except Exception as e`.
Raise(at) ==
    /\ err' = at
    /\ pc' = "except"
    /\ request' = NoRequest
    /\ UNCHANGED <<seenPaused, step, dumped, stages, tool, args, response, shown, text, acted, sent, exit>>
    /\ UNCHANGED hudVars

\* Faulty variant of CallVlm: the sampling parameters of a fixed mode are sent.
CallVlmStaleMode ==
    /\ pc = "call_vlm"
    /\ request' = payload(MODE_OBSERVATION)
    /\ stages' = Append(stages, "call_vlm")
    /\ pc' = "inflight"
    /\ UNCHANGED <<seenPaused, step, dumped, tool, args, response, shown, text, acted, sent, err, exit>>
    /\ UNCHANGED hudVars

\* Faulty variant of CallVlm: the call is held back while paused.
CallVlmChecksPause ==
    /\ pc = "call_vlm"
    /\ ~paused
    /\ request' = payload(mode)
    /\ stages' = Append(stages, "call_vlm")
    /\ pc' = "inflight"
    /\ UNCHANGED <<seenPaused, step, dumped, tool, args, response, shown, text, acted, sent, err, exit>>
    /\ UNCHANGED hudVars

\* call_vlm(png, hud.mode) up to urlopen: the mode is read and the request
\* with its sampling parameters is sent.
CallVlm ==
    /\ pc = "call_vlm"
    /\ request' = payload(mode)
    /\ stages' = Append(stages, "call_vlm")
    /\ pc' = "inflight"
    /\ UNCHANGED <<seenPaused, step, dumped, tool, args, response, shown, text, acted, sent, err, exit>>
    /\ UNCHANGED hudVars

\* Faulty variant of VlmReturn: the last tool call of the response is taken.
VlmReturnLast ==
    /\ pc = "inflight"
    /\ \E resp \in Responses :
          /\ response' = resp
          /\ tool' = resp[Len(resp)].name
          /\ args' = resp[Len(resp)].args
    /\ request' = NoRequest
    /\ pc' = "report"
    /\ UNCHANGED <<seenPaused, step, dumped, stages, shown, text, acted, sent, err, exit>>
    /\ UNCHANGED hudVars

\* urlopen returns and the response holds a tool call: call_vlm returns the
\* name and the arguments of tool_calls[0].
VlmReturn ==
    /\ pc = "inflight"
    /\ \E resp \in Responses :
          /\ response' = resp
          /\ tool' = resp[1].name
          /\ args' = resp[1].args
    /\ request' = NoRequest
    /\ pc' = "report"
    /\ UNCHANGED <<seenPaused, step, dumped, stages, shown, text, acted, sent, err, exit>>
    /\ UNCHANGED hudVars

\* urlopen times out or fails, the response is not JSON, or it holds no
\* tool call.
VlmFail ==
    /\ pc = "inflight"
    /\ Raise("call_vlm")

\* report = args2.get("report", ""); the two prints.
Report ==
    /\ pc = "report"
    /\ \/ /\ pc' = "update"
          /\ UNCHANGED <<seenPaused, step, dumped, stages, request, tool, args, response, shown, text,
                         acted, sent, err, exit>>
          /\ UNCHANGED hudVars
       \/ Raise("report")

\* Faulty variant of Update: the report is not published before the dispatch.
UpdateSkipped ==
    /\ pc = "update"
    /\ pc' = "dispatch"
    /\ UNCHANGED <<seenPaused, step, dumped, stages, request, tool, args, response, shown, text, acted, sent, err, exit>>
    /\ UNCHANGED hudVars

\* hud.update(report); time.sleep(0.1)
Update ==
    /\ pc = "update"
    /\ \/ /\ shown' = step
          /\ text' = report_of(args)
          /\ stages' = Append(stages, "update")
          /\ pc' = "dispatch"
          /\ UNCHANGED <<seenPaused, step, dumped, request, tool, args, response, acted, sent, err, exit>>
          /\ UNCHANGED hudVars
       \/ Raise("update")

\* `if tool != "observe"`: execute_tool_action(tool, args2, conv) and
\* time.sleep(0.5); else time.sleep(0.2).  A tool name that matches no case
\* sends nothing; a known one reads its arguments (a missing one raises) and
\* hands its batches to send_input one after the other.  A SendInput that
\* inserts fewer events than it was given raises, so what was inserted is
\* then a proper prefix of the events.
Dispatch ==
    /\ pc = "dispatch"
    /\ \E act \in {e \in Executed : e.name = tool /\ e.args = args} :
        LET events == act.events
        IN \/ /\ tool \notin ActionTools
              /\ pc' = "loop"
              /\ UNCHANGED <<seenPaused, step, dumped, stages, request, tool, args,
                             response, shown, text, acted, sent, err, exit>>
              /\ UNCHANGED hudVars
           \/ /\ tool \in ActionTools
              /\ act.ok
              /\ stages' = Append(stages, "execute_tool_action")
              /\ IF events = <<>>
                 THEN /\ pc' = "loop"
                      /\ UNCHANGED <<acted, sent, err>>
                 ELSE /\ acted' = step
                      /\ \E k \in 0..Len(events) :
                            /\ sent' = SubSeq(events, 1, k)
                            /\ IF k = Len(events)
                               THEN pc' = "loop" /\ UNCHANGED err
                               ELSE pc' = "except" /\ err' = "execute_tool_action"
              /\ UNCHANGED <<seenPaused, step, dumped, request, tool, args, response,
                             shown, text, exit>>
              /\ UNCHANGED hudVars
           \/ /\ tool \in ActionTools
              /\ ~act.ok
              /\ Raise("execute_tool_action")

\* print(f"[{ts}] Error: {e}"); time.sleep(2.0)
Except ==
    /\ pc = "except"
    /\ pc' = "loop"
    /\ UNCHANGED <<seenPaused, step, dumped, stages, request, tool, args, response, shown, text, acted, sent, err, exit>>
    /\ UNCHANGED hudVars

\* Ctrl-C: KeyboardInterrupt is no Exception, so it leaves main() from any
\* position and is caught at module level.
KeyboardInterrupt ==
    /\ pc # "done"
    /\ Leave("interrupt")
    /\ UNCHANGED err

\* The steps of the loop body after the pause check.
StepNext ==
    \/ Begin
    \/ Capture
    \/ Downsample
    \/ EncodePng
    \/ WriteBytes
    \/ CallVlm
    \/ VlmReturn
    \/ VlmFail
    \/ Report
    \/ Update
    \/ Dispatch
    \/ Except

\* The steps of the control loop that the thread takes by itself.
LoopNext ==
    \/ EnterWait
    \/ FirstWaitTest
    \/ FirstWaitBlock
    \/ FirstStopCheck
    \/ LoopHead
    \/ StepWaitTest
    \/ StepWaitBlock
    \/ StopCheck
    \/ StepNext

Next ==
    \/ HudNext
    \/ LoopNext
    \/ KeyboardInterrupt

Spec == Init /\ [][Next]_vars

\* The main thread is scheduled whenever it can run.
FairSpec == Spec /\ WF_vars(LoopNext)

----------------------------------------------------------------------------
(* The pure functions, called on their own.  The two threads stay as they   *)
(* are constructed; a call is drawn from a bounded set and then run.        *)

\* The two threads as constructed, before either has taken a step.
Parked ==
    /\ paused = TRUE
    /\ mode = MODE_OBSERVATION
    /\ stop_event = FALSE
    /\ pause_event = FALSE
    /\ ready_event = FALSE
    /\ hud_pc = "start"
    /\ hud_arg = TRUE
    /\ pc = "enter"
    /\ seenPaused = TRUE
    /\ step = 0
    /\ dumped = <<>>
    /\ stages = <<>>
    /\ request = NoRequest
    /\ tool = "observe"
    /\ args = NoArgs
    /\ response = <<>>
    /\ shown = 0
    /\ text = INITIAL_STORY
    /\ acted = 0
    /\ sent = <<>>
    /\ err = "none"
    /\ exit = "none"
    /\ toggled = FALSE

\* The pure function fn returns val.
Return(fn, val) ==
    /\ call.fn = fn
    /\ out = NoResult
    /\ out' = [of |-> fn, val |-> val]
    /\ UNCHANGED call
    /\ UNCHANGED sysVars

\* Screen sizes: every size up to MaxDim on each axis, 0 included, and three
\* display sizes.
Screens ==
    {[sw |-> w, sh |-> h] : w, h \in 0..MaxDim}
       \cup {[sw |-> 1920, sh |-> 1080], [sw |-> 1024, sh |-> 576],
             [sw |-> 999, sh |-> 1001]}

\* Coordinates handed to the two conversions: around 0, around 1000, inside
\* and far outside.
CoordInputs ==
    (-MaxOver..MaxOver) \cup ((1000 - MaxOver)..(1000 + MaxOver))
       \cup {-1000, 333, 500, 1919, 1920, 2000}

CoordCalls ==
    [fn : {"to_screen", "to_win32"}, c : Screens, x : CoordInputs, y : CoordInputs]

CoordInit == Parked /\ call \in CoordCalls /\ out = NoResult

\* conv.to_screen(x, y)
ToScreen == Return("to_screen", to_screen(call.c, call.x, call.y))

\* conv.to_win32(x, y)
ToWin32 == Return("to_win32", to_win32(call.c, call.x, call.y))

CoordNext == ToScreen \/ ToWin32

CoordSpec == CoordInit /\ [][CoordNext]_vars

\* A buffer of n pixels, all of the colour col.
Uniform(col, n) == [i \in 1..(4 * n) |-> col[((i - 1) % 4) + 1]]

\* A buffer of n pixels with no two bytes in a row equal.
Gradient(n) == [i \in 1..(4 * n) |-> (37 * i) % 256]

RECURSIVE Buffers(_, _)
\* The buffers of n pixels over a set of pixels.
Buffers(pixels, n) ==
    IF n = 0 THEN {<<>>}
    ELSE {b \o px : b \in Buffers(pixels, n - 1), px \in pixels}

\* Heights of the buffers.
Rows == 1..2
\* Heights of the targets of the source that is not of one colour.
TallRows == 1..3

\* Colours of the one-colour sources: black, grays and a dim red.
Colours == {<<0, 0, 0, 0>>, <<128, 128, 128, 128>>, <<255, 255, 255, 255>>,
            <<0, 0, 1, 0>>}

DownsampleCall(src, sw, sh, dw, dh) ==
    [fn |-> "downsample", src |-> src, sw |-> sw, sh |-> sh, dw |-> dw, dh |-> dh]

\* The calls of downsample: sources of one colour at every size, wide black
\* sources, an opaque gray source reduced or enlarged to at most 2 x 2, one
\* gray pixel enlarged to a row, and a source that is not of one colour.
DownsampleCalls ==
    {DownsampleCall(Uniform(col, sw * sh), sw, sh, dw, dh) :
        col \in Colours, sw \in 1..MaxSide, sh \in Rows, dw \in 1..MaxSide, dh \in Rows}
    \cup
    {DownsampleCall(Uniform(<<0, 0, 0, 0>>, sw * sh), sw, sh, dw, dh) :
        sw \in (MaxSide + 1)..(2 * MaxSide), sh \in Rows, dw \in 1..MaxSide, dh \in Rows}
    \cup
    {DownsampleCall(Uniform(<<100, 100, 100, 255>>, sw * sh), sw, sh, dw, dh) :
        sw \in 1..MaxSide, sh \in Rows, dw \in 1..2, dh \in Rows}
    \cup
    {DownsampleCall(Uniform(<<128, 128, 128, 128>>, 1), 1, 1, dw, 1) :
        dw \in {MaxSide + 1}}
    \cup
    {DownsampleCall(Gradient(MaxSide * 3), MaxSide, 3, dw, dh) :
        dw \in 1..MaxSide, dh \in TallRows}

\* Pixels of the buffers handed to encode_png.
EncPixels == {<<1, 2, 3, 4>>, <<250, 128, 7, 255>>}

EncodeCalls ==
    UNION {[fn : {"encode_png"}, bgra : Buffers(EncPixels, w * h),
            width : {w}, height : {h}] : w \in 1..MaxSide, h \in Rows}

ImageInit == Parked /\ call \in (DownsampleCalls \cup EncodeCalls) /\ out = NoResult

\* `if (sw, sh) == (dw, dh): return src`
ReturnSource ==
    /\ call.fn = "downsample"
    /\ <<call.sw, call.sh>> = <<call.dw, call.dh>>
    /\ Return("downsample", call.src)

\* The resampling loops of downsample: temp, and with it the source
\* positions each destination column and row accumulated.
Resample ==
    /\ call.fn = "downsample"
    /\ <<call.sw, call.sh>> # <<call.dw, call.dh>>
    /\ out = NoResult
    /\ \E t \in TempBuffers(call, call.dw * call.dh) :
          out' = [of |-> "resample",
                  temp |-> t,
                  xs |-> [d \in 0..(call.dw - 1) |-> Window(call.sw, call.dw, d)],
                  ys |-> [d \in 0..(call.dh - 1) |-> Window(call.sh, call.dh, d)]]
    /\ UNCHANGED call
    /\ UNCHANGED sysVars

\* The enhancement pass of downsample; `return bytes(dst)`.
Enhance ==
    /\ out.of = "resample"
    /\ out' = [of |-> "downsample",
               val |-> Enhanced(out.temp, call.dw, call.dh),
               temp |-> out.temp,
               xs |-> out.xs,
               ys |-> out.ys]
    /\ UNCHANGED call
    /\ UNCHANGED sysVars

\* encode_png(bgra, width, height)
Encode ==
    Return("encode_png", encode_png(call.bgra, call.width, call.height))

ImageNext == ReturnSource \/ Resample \/ Enhance \/ Encode

ImageSpec == ImageInit /\ [][ImageNext]_vars

----------------------------------------------------------------------------
(* Claims.                                                                  *)

\* The stages that run inside the try block of the loop body.
TryStages == {"call_vlm", "report", "update", "execute_tool_action"}

\* C1 (as stated): whenever paused is true, no decision call is started or
\* in progress and no actuator command is dispatched.
C1_NoCallOrActuationWhilePaused ==
    paused => (pc # "inflight" /\ request = NoRequest
               /\ ~(pc = "dispatch" /\ tool \in ActionTools))

\* C1 (amended): the control loop is inside a step, and so a decision call
\* is in progress or an actuation is dispatched, only after the pause check
\* of that step read paused = false.
C1_StepOnlyAfterUnpausedCheck ==
    (pc \in InStep \/ request # NoRequest) => ~seenPaused

\* C1 witness: the operator paused while the decision call of a step that
\* passed its pause check is in flight.
C1_Witness == paused /\ pc = "inflight" /\ request # NoRequest /\ ~seenPaused

\* C2: the pause flag is consulted only at the step boundary: a step is
\* entered only from the stop check that follows wait_for_resume; inside a
\* step the control loop can always take its next stage, whatever paused is;
\* a change of paused moves the control loop nowhere; and the loop leaves a
\* step only at its end (after the dispatch or the back-off) or by leaving
\* main().
C2_PauseOnlyAtStepBoundary ==
    /\ [](pc \in InStep => ENABLED StepNext)
    /\ [][/\ (pc \notin InStep /\ pc' \in InStep) => (pc = "stopchk" /\ pc' = "begin")
          /\ (paused' # paused) => (pc' = pc /\ stages' = stages)
          /\ (pc \in InStep /\ pc' \notin InStep) =>
                \/ pc' = "loop" /\ pc \in {"dispatch", "except"}
                \/ pc' = "done" /\ exit' \in {"exception", "interrupt"}]_vars

\* C2 witness: paused is true while the step is at its actuation stage,
\* having run through capture, encode, the decision call and the report.
C2_Witness ==
    /\ paused
    /\ pc = "dispatch"
    /\ stages = SubSeq(StageOrder, 1, 6)

\* C3: the system starts paused in observation mode; before the first
\* toggle_pause there is no capture, no decision call and no actuation; and
\* when main() ends without any toggle_pause it has performed zero steps.
C3_NothingBeforeFirstResume ==
    /\ (pc = "enter" /\ hud_pc = "start") => (paused /\ mode = MODE_OBSERVATION)
    /\ ~toggled => /\ paused
                   /\ step = 0
                   /\ stages = <<>>
                   /\ request = NoRequest
                   /\ acted = 0
                   /\ sent = <<>>
                   /\ shown = 0
                   /\ pc \notin InStep

\* C3 witness: the stop signal arrived before any resume and main() returned.
C3_Witness == ~toggled /\ pc = "done" /\ exit = "stop" /\ step = 0

\* C4: the sampling profile sent with a decision request is that of the mode
\* read when the call starts, and no event changes the request in flight.
C4_ProfileOfModeAtCallStart ==
    [][/\ (pc = "call_vlm" /\ pc' = "inflight") =>
              request' = [sent |-> TRUE, sampling |-> get_sampling_config(mode)]
       /\ (pc = "inflight" /\ pc' = "inflight") => request' = request]_vars

\* C4 witness: in the second step, a call is in flight with the execution
\* profile after the mode was toggled back to observation during the call.
C4_Witness ==
    /\ pc = "inflight"
    /\ step = 2
    /\ mode = MODE_OBSERVATION
    /\ request = [sent |-> TRUE, sampling |-> get_sampling_config(MODE_EXECUTION)]

\* C5: a failure of capture_screen is a step-local error: it does not end
\* the control loop.
C5_CaptureFailureIsStepLocal == err = "capture_screen" => exit # "exception"

\* C6: a failure of the decision call or of the actuator dispatch is caught
\* in its step: main() does not end by it, the control loop is in the
\* back-off or past it on the way to the start of the next step, and a step whose
\* decision call failed has published no report and dispatched no actuation.
C6_TryFailuresAreStepLocal ==
    /\ err \in TryStages =>
          /\ exit # "exception"
          /\ pc \in {"except", "loop", "wait_test", "wait_block", "stopchk",
                    "begin", "done"}
    /\ err = "call_vlm" => (shown # step /\ acted # step)

\* C6 witness: the decision call of the second step failed and the loop is
\* waiting for the step after it.
C6_Witness == err = "call_vlm" /\ step = 2 /\ pc = "wait_test" /\ shown = 1

\* C7: no actuator command is dispatched once stop_event is set.
C7_NoActuationAfterStop == [][stop_event => acted' = acted]_vars

\* C8: once stop_event is set, a test of the wait_for_resume loop leaves the
\* wait (so a blocked thread waits out at most one poll timeout), and the
\* control loop eventually terminates.
C8_StopTerminatesLoop ==
    /\ [][(stop_event /\ pc \in {"wait0_test", "wait_test"} /\ pc' # pc)
              => pc' \notin InWait]_vars
    /\ (stop_event ~> pc = "done")

\* C8 witness: the control loop is blocked in wait_for_resume, paused, when
\* the stop signal is set.
C8_Witness == stop_event /\ paused /\ pc \in {"wait0_block", "wait_block"}

\* C9: toggle_pause flips paused and leaves mode and step alone; toggle_mode
\* flips mode and leaves paused and step alone; no step of the control loop
\* writes paused or mode.
C9_ToggleFrames ==
    [][/\ (hud_pc = "pump" /\ hud_pc' = "set_event") =>
              (paused' = ~paused /\ mode' = mode /\ step' = step)
       /\ (paused' # paused) => (mode' = mode /\ step' = step /\ pc' = pc)
       /\ (mode' # mode) =>
              /\ {mode, mode'} = {MODE_OBSERVATION, MODE_EXECUTION}
              /\ paused' = paused /\ step' = step /\ pc' = pc
       /\ (pc' # pc \/ step' # step) => (paused' = paused /\ mode' = mode)]_vars

\* C9 witness: both toggles have acted while the loop has counted a step.
C9_Witness == ~paused /\ mode = MODE_EXECUTION /\ step = 1 /\ pc = "inflight"

\* C10: the stages of a step happen in the order of the loop body; one step
\* is in flight at a time (a step begins only with no request in flight and
\* the counter moves by one); an action is dispatched only in the current
\* step, after that step's capture, call and published report.
C10_StagesInOrder ==
    /\ [](IsPrefix(stages, StageOrder))
    /\ [][/\ (step' # step) =>
                (step' = step + 1 /\ request = NoRequest /\ stages' = <<>>
                 /\ pc \notin (InStep \ {"begin"}))
          /\ (acted' # acted) =>
                (acted' = step /\ shown = step
                 /\ stages = SubSeq(StageOrder, 1, 6))]_vars

\* C10 witness: the second step has run all stages through the actuation.
C10_Witness == step = 2 /\ acted = 2 /\ shown = 2 /\ stages = StageOrder

\* C11: every action the control loop accepts carries a non-empty report:
\* once a step has published a report the operator surface shows a
\* non-empty text, and an action that sent input events carried a non-empty
\* report.
C11_ReportNeverEmpty ==
    /\ shown > 0 => text # ""
    /\ sent # <<>> => report_of(args) # ""

\* The events a coordinate tool starts with: the move to the position that
\* to_screen and then to_win32 make of the coordinates (x, y).
MovedTo(x, y) ==
    LET p == to_screen(conv, x, y) IN Move(to_win32(conv, p[1], p[2]))

\* The number of events of a given type among the events sent.
CountOf(type) == Cardinality({i \in DOMAIN sent : sent[i].type = type})

\* C12: a step issues one decision request and executes at most one action.
\* The step's stages hold call_vlm once at most, and once while the request
\* is in flight.  When input events were sent in the step, they were sent
\* for the first tool call of the response, which is one of the six action
\* tools, and no event goes beyond that one action: a click, right click or
\* double click moves once, to the position to_screen and to_win32 make of
\* (x, y), and presses once (twice for the double click); a drag starts at
\* the mapped (x1, y1), presses once and its last move is to the mapped
\* (x2, y2).  When the first tool call is observe or an unknown name,
\* nothing is sent.
C12_OneRequestOneAction ==
    /\ Cardinality({i \in DOMAIN stages : stages[i] = "call_vlm"}) <= 1
    /\ request # NoRequest =>
          Cardinality({i \in DOMAIN stages : stages[i] = "call_vlm"}) = 1
    /\ sent # <<>> =>
          /\ acted = step
          /\ response # <<>>
          /\ tool = response[1].name
          /\ args = response[1].args
          /\ response[1].name \in ActionTools
          /\ LET n == response[1].name
                 a == response[1].args
             IN  /\ n \in {"click", "right_click", "double_click"} =>
                       /\ sent[1] = MovedTo(a.x, a.y)
                       /\ CountOf("move") = 1
                       /\ CountOf("leftdown") + CountOf("rightdown")
                             <= (IF n = "double_click" THEN 2 ELSE 1)
                       /\ CountOf("key") + CountOf("wheel") = 0
                 /\ n = "drag" =>
                       /\ sent[1] = MovedTo(a.x1, a.y1)
                       /\ CountOf("leftdown") <= 1
                       /\ CountOf("move") <= 11
                       /\ Len(sent) >= 12 => sent[12] = MovedTo(a.x2, a.y2)
                       /\ CountOf("key") + CountOf("wheel") = 0
                 /\ n = "type" =>
                       /\ Len(sent) <= 2 * Len(a.text)
                       /\ CountOf("key") = Len(sent)
                 /\ n = "scroll" =>
                       /\ CountOf("wheel") = Len(sent)
    /\ (response # <<>> /\ tool = response[1].name /\ tool \notin ActionTools) =>
          sent = <<>>

\* A step sent the whole of the first action of a response with two tool
\* calls and nothing of the second.
C12_Witness ==
    /\ pc = "loop"
    /\ Len(response) = 2
    /\ response[1].name = "click"
    /\ sent = <<MovedTo(250, 750), Button("leftdown"), Button("leftup")>>

\* C13: the step counter starts at 0, only the control loop writes it, by
\* adding 1 when a step begins, and the names of the dump files written in
\* the run are those of strictly increasing steps, none written twice.
C13_StepCounterAndDumpNames ==
    /\ step = 0
    /\ [][step' # step =>
             /\ pc = "begin"
             /\ step' = step + 1
             /\ UNCHANGED hudVars]_vars
    /\ [](/\ Len(dumped) <= step
          /\ \A i, j \in DOMAIN dumped :
                i < j =>
                   /\ dumped[i] # dumped[j]
                   /\ \E m, n \in 1..step :
                         /\ m < n
                         /\ dumped[i] = dump_name(m)
                         /\ dumped[j] = dump_name(n))

\* The first step's decision call failed, and the second step has written
\* its dump file after the first step's.
C13_Witness ==
    /\ dumped = <<dump_name(1), dump_name(2)>>
    /\ shown = 0
    /\ pc = "inflight"

\* C20: whenever the window thread has ended, the stop signal is set.
C20_StopSetWhenWindowThreadEnds == hud_pc = "exited" => stop_event

\* C14: on a screen of at least one pixel on each axis, to_screen clamps to
\* [0, 1000], scales and truncates: an input of 0 or less gives 0, an input
\* of 1000 or more gives what 1000 gives, which is the screen dimension and
\* so within one pixel of the last pixel; an input in between gives the
\* whole part of input * dimension / 1000.
C14_ToScreenClampsAndTruncates ==
    (out # NoResult /\ out.of = "to_screen" /\ call.c.sw >= 1 /\ call.c.sh >= 1) =>
        \A k \in 1..2 :
           LET v == IF k = 1 THEN call.x ELSE call.y
               dim == IF k = 1 THEN call.c.sw ELSE call.c.sh
               r == out.val[k]
           IN  /\ v <= 0 => r = 0
               /\ v >= 1000 => (r = dim /\ Abs(r - (dim - 1)) <= 1)
               /\ (0 <= v /\ v <= 1000) =>
                     (1000 * r <= v * dim /\ v * dim < 1000 * (r + 1))

\* to_screen has run on an input below 0 on one axis and above 1000 on the
\* other, on a display of 1920 x 1080.
C14_Witness ==
    /\ out # NoResult /\ out.of = "to_screen"
    /\ call.c = [sw |-> 1920, sh |-> 1080]
    /\ call.x = -1 /\ call.y = 1002
    /\ out.val = <<0, 1080>>

\* C15: to_win32 returns each axis value in the device space 0..65535, for
\* every whole-number input and every screen size, 0 included.
C15_ToWin32InDeviceSpace ==
    (out # NoResult /\ out.of = "to_win32") =>
        /\ out.val[1] \in 0..65535
        /\ out.val[2] \in 0..65535

Neighbour(b, w, h, x, y, c, ox, oy) ==
    Px(b, w, Max(0, Min(w - 1, x + ox)), Max(0, Min(h - 1, y + oy)), c)

\* Ten times the blur of channel c at pixel (x, y): weight 1.0 for the
\* pixel, 0.5 for each of its eight neighbours, over a count of 5.0.
Blur10(b, w, h, x, y, c) ==
    2 * Px(b, w, x, y, c)
      + Neighbour(b, w, h, x, y, c, -1, -1) + Neighbour(b, w, h, x, y, c, 0, -1)
      + Neighbour(b, w, h, x, y, c, 1, -1) + Neighbour(b, w, h, x, y, c, -1, 0)
      + Neighbour(b, w, h, x, y, c, 1, 0) + Neighbour(b, w, h, x, y, c, -1, 1)
      + Neighbour(b, w, h, x, y, c, 0, 1) + Neighbour(b, w, h, x, y, c, 1, 1)

\* C17: the enhancement pass copies every alpha byte; a colour channel
\* whose detail (its value less the blur) is at most 10 in absolute value
\* is unchanged, and any other is trunc(original + 0.8 * detail) clamped to
\* 0..255; a buffer of one colour is returned unchanged.
C17_EnhancementPass ==
    (out.of = "downsample" /\ "temp" \in DOMAIN out) =>
        /\ Len(out.val) = Len(out.temp)
        /\ \A x \in 0..(call.dw - 1), y \in 0..(call.dh - 1) :
              /\ Px(out.val, call.dw, x, y, 3) = Px(out.temp, call.dw, x, y, 3)
              /\ \A c \in 0..2 :
                    LET original == Px(out.temp, call.dw, x, y, c)
                        detail10 == 10 * original
                                       - Blur10(out.temp, call.dw, call.dh, x, y, c)
                        result == Px(out.val, call.dw, x, y, c)
                    IN  IF Abs(detail10) <= 100
                        THEN result = original
                        ELSE /\ result \in 0..255
                             /\ LET sharp100 == 100 * original + 8 * detail10
                                IN  \/ sharp100 < 0 /\ result = 0
                                    \/ sharp100 >= 25500 /\ result = 255
                                    \/ /\ 100 * result <= sharp100
                                       /\ sharp100 < 100 * (result + 1)
        /\ IsUniform(out.temp) => out.val = out.temp

\* Two pixels side by side: the first byte of each differs by 128 and is
\* sharpened to 0 (clamped) and to 158 (truncated from 158.72), the second
\* differs by 5 and is unchanged, the third differs by 195 and is sharpened
\* to 255 (clamped) and to 13 (truncated from 13.2), the alpha bytes 255 and
\* 7 are copied.
C17_Witness ==
    /\ out.of = "downsample"
    /\ "temp" \in DOMAIN out
    /\ <<call.dw, call.dh>> = <<2, 1>>
    /\ out.temp = <<0, 100, 255, 255, 128, 105, 60, 7>>
    /\ out.val = <<0, 100, 255, 255, 158, 105, 13, 7>>

\* C18: the stream encode_png builds has, per row, a filter byte 0 and then
\* the row's pixels as R, G, B; read back with the header's width and
\* height, 8 bits a channel and colour type RGB, it gives the R, G, B of
\* every pixel of the buffer, in order.
C18_EncoderRoundTrip ==
    out.of = "encode_png" =>
        LET w == out.val.ihdr.width
            h == out.val.ihdr.height
            raw == out.val.idat
        IN  /\ w = call.width /\ h = call.height
            /\ out.val.ihdr.depth = 8 /\ out.val.ihdr.colour = 2
            /\ Len(raw) = (3 * w + 1) * h
            /\ \A y \in 0..(h - 1) :
                  /\ raw[y * (3 * w + 1) + 1] = 0
                  /\ \A x \in 0..(w - 1) :
                        LET at == y * (3 * w + 1) + 1 + 3 * x
                        IN  <<raw[at + 1], raw[at + 2], raw[at + 3]>>
                               = <<Px(call.bgra, w, x, y, 2),
                                   Px(call.bgra, w, x, y, 1),
                                   Px(call.bgra, w, x, y, 0)>>

\* A 2 x 2 buffer of two different pixels has been encoded.
C18_Witness ==
    /\ out.of = "encode_png"
    /\ call.bgra = <<1, 2, 3, 4, 250, 128, 7, 255, 250, 128, 7, 255, 1, 2, 3, 4>>
    /\ out.val.idat = <<0, 3, 2, 1, 7, 128, 250, 0, 7, 128, 250, 3, 2, 1>>

\* The in-bounds source positions of one axis within 3 * scale of the
\* centre of destination pixel d, where scale = sdim / ddim: those s with
\* |s - c| <= 3 * sdim / ddim, that is |2 * ddim * s - ((2d + 1) * sdim -
\* ddim)| <= 6 * sdim.
ScaledWindow(sdim, ddim, d) ==
    {s \in 0..(sdim - 1) :
        Abs(2 * ddim * s - ((2 * d + 1) * sdim - ddim)) <= 6 * sdim}

\* C19: for every destination pixel, the source pixels downsample
\* accumulates are the in-bounds ones within 3 * sx of the centre
\* horizontally and 3 * sy vertically.
C19_WindowScaledByFactor ==
    (out.of \in {"resample", "downsample"} /\ "xs" \in DOMAIN out) =>
        /\ \A d \in DOMAIN out.xs : out.xs[d] = ScaledWindow(call.sw, call.dw, d)
        /\ \A d \in DOMAIN out.ys : out.ys[d] = ScaledWindow(call.sh, call.dh, d)

\* The left mouse button is held by the events sent: a left-button-down is
\* among them with no left-button-up after it.
LeftHeld ==
    \E i \in DOMAIN sent :
        /\ sent[i].type = "leftdown"
        /\ \A j \in (i + 1)..Len(sent) : sent[j].type # "leftup"

\* C21: after every drag action, completed or failed part-way in one of its
\* send_input calls, the left button is released: when the control loop is
\* back at the head of its loop after a step that dispatched a drag, the
\* events the step sent do not leave the left button held.
C21_DragReleasesButton == (pc = "loop" /\ tool = "drag") => ~LeftHeld

\* C22: resume liveness.  When paused is false while the control loop is in
\* wait_for_resume (with a step left to count), the loop eventually leaves
\* the wait and begins a step, unless the operator pauses again or the
\* program is stopped; this holds with the main thread scheduled fairly and
\* the window thread at any position of _set_paused_ui, the write of paused
\* done and pause_event not yet set included.
C22_ResumeLiveness ==
    (~paused /\ pc \in InWait /\ step < MaxSteps)
        ~> (pc = "begin" \/ paused \/ stop_event)

\* C22 witness: the loop has left wait_for_resume and begins a step while
\* the window thread is still between the write of paused and
\* pause_event.set().
C22_Witness ==
    /\ pc = "begin"
    /\ ~paused /\ ~seenPaused
    /\ hud_pc = "set_event" /\ ~hud_arg
    /\ ~pause_event
    /\ ~stop_event

====
